---- MODULE Spec2Model ----
(***************************************************************************)
(* State-machine model of our-mcp-base: the response helpers               *)
(* (responses.py), the ToolRouter registry (router.py) and the             *)
(* MCPServerBase lifecycle and protected call handler (server.py).         *)
(***************************************************************************)
EXTENDS Integers, Sequences, FiniteSets, TLC

(***************************************************************************)
(* Bounds of the model.                                                    *)
(***************************************************************************)
\* Longest sequence of register() calls made before run().
MaxRegs == 2
\* Longest error_handlers list passed to the constructor.
MaxChain == 2
\* Most calls the transport delivers while the calls are followed step by
\* step.
MaxCalls == 2

(***************************************************************************)
(* Python values.  Values are tagged so that a bool, a str and an object   *)
(* that json cannot encode natively stay distinguishable.                  *)
(***************************************************************************)
None == "None"

PyBool(b) == [t |-> "bool", b |-> b]
PyStr(s) == [t |-> "str", s |-> s]
PyObj(r) == [t |-> "obj", r |-> r]

\* str(v)
Str(v) ==
    CASE v.t = "str" -> v.s
      [] v.t = "bool" -> IF v.b THEN "True" ELSE "False"
      [] v.t = "obj" -> v.r

\* The empty dict {} / no keyword arguments.
EmptyDict == [k \in {} |-> PyBool(FALSE)]

(***************************************************************************)
(* Exceptions.  Every class used here derives from Exception, as the type  *)
(* of error_handlers requires (type[Exception]).                           *)
(***************************************************************************)
\* class BaseError(Exception); class SpecificError(BaseError)
Parent(cls) ==
    CASE cls = "SpecificError" -> "BaseError"
      [] cls = "BaseError" -> "Exception"
      [] cls = "RuntimeError" -> "Exception"
      [] cls = "TypeError" -> "Exception"
      [] cls = "KeyError" -> "Exception"
      [] cls = "Exception" -> "BaseException"
      [] OTHER -> "object"

RECURSIVE IsSubclass(_, _)
IsSubclass(cls, T) ==
    IF cls = T THEN TRUE
    ELSE IF cls = "object" THEN FALSE
    ELSE IsSubclass(Parent(cls), T)

Exc(cls, msg) == [cls |-> cls, msg |-> msg]

\* isinstance(e, exc_type)
IsInstance(e, T) == IsSubclass(e.cls, T)

\* How a call ends: by returning a value or by raising an exception.
Returns(v) == [kind |-> "return", value |-> v]
Raises(e) == [kind |-> "raise", exc |-> e]

(***************************************************************************)
(* responses.py                                                            *)
(***************************************************************************)
\* {"success": True, **kwargs}: a later key overrides an earlier one.
success_response(kwargs) == kwargs @@ [success |-> PyBool(TRUE)]

\* def error_response(error, **kwargs): a keyword named "error" collides with
\* the positional parameter and the call itself raises TypeError.
error_response(error, kwargs) ==
    IF "error" \in DOMAIN kwargs
    THEN Raises(Exc("TypeError", "error_response() got multiple values for argument 'error'"))
    ELSE Returns(kwargs @@ [success |-> PyBool(FALSE), error |-> PyStr(error)])

\* A wrapper whose message lacks the colon.
NotFoundNoColon(resource_type, resource_id) ==
    error_response(resource_type \o " not found " \o resource_id, EmptyDict)

\* error_response(f"{resource_type} not found: {resource_id}")
not_found_response(resource_type, resource_id) ==
    error_response(resource_type \o " not found: " \o resource_id, EmptyDict)

(***************************************************************************)
(* Tool handlers a server registers.  HandlerX is the test suite's         *)
(* handler(x) -> {"x": x}; Raiser raises the exception class it is asked   *)
(* for, as the test servers' handle_tool do.                               *)
(***************************************************************************)
ToolFuncs == {"HandlerX", "Raiser"}

\* The keyword parameters of each function's signature (all required).
Params(func) ==
    CASE func = "HandlerX" -> {"x"}
      [] func = "Raiser" -> {"exc"}

\* The body of each function, run with its parameters bound.
Body(func, kwargs) ==
    CASE func = "HandlerX" -> Returns([x |-> kwargs.x])
      [] func = "Raiser" -> Raises(Exc(Str(kwargs.exc), "oops"))

\* handler(**arguments): binding the keywords to the signature raises
\* TypeError when they do not fit; otherwise the body runs.
CallHandler(func, kwargs) ==
    IF DOMAIN kwargs # Params(func)
    THEN Raises(Exc("TypeError", func \o "() got unexpected or missing keyword arguments"))
    ELSE Body(func, kwargs)

(***************************************************************************)
(* router.py: ToolRouter.  self._handlers is a dict, which keeps its keys  *)
(* in insertion order: it is modelled as the sequence of its items.        *)
(***************************************************************************)
DictKeys(d) == {d[i].name : i \in 1..Len(d)}

\* The position of key `name` in the dict (0 when absent).
DictIndex(d, name) ==
    IF name \in DictKeys(d)
    THEN CHOOSE i \in 1..Len(d) : d[i].name = name
    ELSE 0

\* self._handlers.get(name)
DictGet(d, name) ==
    IF DictIndex(d, name) = 0 THEN None ELSE d[DictIndex(d, name)].func

\* A registration that keeps the handler already stored under the name.
RegisterFirstWins(handlers, name, func) ==
    IF DictIndex(handlers, name) = 0
    THEN Append(handlers, [name |-> name, func |-> func])
    ELSE handlers

\* A registration that rebuilds the dict around the new entry alone.
RegisterReplacesAll(handlers, name, func) ==
    <<[name |-> name, func |-> func]>>

\* register(name)(func): self._handlers[name] = func.  Assigning to an
\* existing key replaces its value in place; a new key is appended.
RegisterHandler(handlers, name, func) ==
    IF DictIndex(handlers, name) = 0
    THEN Append(handlers, [name |-> name, func |-> func])
    ELSE [handlers EXCEPT ![DictIndex(handlers, name)].func = func]

\* decorator(func): return func
RegisterReturn(func) == func

\* A dispatch that calls the handler registered first, whatever the name.
DispatchFirstRegistered(handlers, name, arguments) ==
    LET handler == IF DictGet(handlers, name) # None /\ handlers[1].func # None
                   THEN handlers[1].func
                   ELSE DictGet(handlers, name) IN
    IF handler = None
    THEN [out |-> error_response("Unknown tool: " \o name, EmptyDict),
          invoked |-> <<>>]
    ELSE [out |-> CallHandler(handler, arguments),
          invoked |-> <<[func |-> handler, name |-> name, kwargs |-> arguments]>>]

\* A dispatch that indexes the dict (self._handlers[name]) and so raises
\* KeyError for a name that is not registered.
DispatchKeyError(handlers, name, arguments) ==
    IF DictIndex(handlers, name) = 0
    THEN [out |-> Raises(Exc("KeyError", name)), invoked |-> <<>>]
    ELSE IF DictGet(handlers, name) = None
    THEN [out |-> error_response("Unknown tool: " \o name, EmptyDict),
          invoked |-> <<>>]
    ELSE [out |-> CallHandler(DictGet(handlers, name), arguments),
          invoked |-> <<[func |-> DictGet(handlers, name), name |-> name,
                         kwargs |-> arguments]>>]

\* A dispatch that catches the handler's exception and answers with an
\* error envelope.
DispatchCatches(handlers, name, arguments) ==
    LET handler == DictGet(handlers, name) IN
    IF handler = None
    THEN [out |-> error_response("Unknown tool: " \o name, EmptyDict),
          invoked |-> <<>>]
    ELSE [out |-> IF CallHandler(handler, arguments).kind = "raise"
                  THEN error_response(CallHandler(handler, arguments).exc.msg, EmptyDict)
                  ELSE CallHandler(handler, arguments),
          invoked |-> <<[func |-> handler, name |-> name, kwargs |-> arguments]>>]

\* ToolRouter.dispatch: how the call ends, and the handler invocations made.
dispatch(handlers, name, arguments) ==
    LET handler == DictGet(handlers, name) IN
    IF handler = None
    THEN [out |-> error_response("Unknown tool: " \o name, EmptyDict),
          invoked |-> <<>>]
    ELSE [out |-> CallHandler(handler, arguments),
          invoked |-> <<[func |-> handler, name |-> name, kwargs |-> arguments]>>]

\* ToolRouter.has_tool
has_tool(handlers, name) == name \in DictKeys(handlers)

\* A listing that returns the keys latest first.
ToolNamesReversed(handlers) ==
    [i \in 1..Len(handlers) |-> handlers[Len(handlers) + 1 - i].name]

\* ToolRouter.tool_names: list(self._handlers.keys())
tool_names(handlers) == [i \in 1..Len(handlers) |-> handlers[i].name]

(***************************************************************************)
(* server.py: MCPServerBase                                                *)
(***************************************************************************)
\* json.dumps(v, default=str) of one value: a bool and a str are encoded
\* natively; any other object goes through default=str and is encoded as
\* the JSON string of str(v).
JsonValue(v) ==
    CASE v.t = "bool" -> IF v.b THEN "true" ELSE "false"
      [] v.t = "str" -> "\"" \o v.s \o "\""
      [] v.t = "obj" -> "\"" \o Str(v) \o "\""

\* An encoding that stamps every payload as a success.
JsonDumpsStampsSuccess(result) ==
    [k \in DOMAIN result \cup {"success"} |->
        IF k = "success" THEN "true" ELSE JsonValue(result[k])]

\* json.dumps(result, ...): the JSON object's members, key by key.
JsonDumps(result) == [k \in DOMAIN result |-> JsonValue(result[k])]

\* TextContent(type="text", text=...)
TextContent(text) == [type |-> "text", text |-> text]

\* handler(e, name) of an error_handlers entry: a caller-supplied callable.
\* It returns a list[TextContent] built from the exception and the tool
\* name, or (behaviour = "raise") fails itself.
RecoveryFn(fn, e, name, behaviour) ==
    IF behaviour = "raise"
    THEN Raises(Exc("RuntimeError", fn \o " failed"))
    ELSE Returns(<<TextContent(JsonDumps(
             [handler |-> PyStr(fn),
              error |-> PyStr("Custom: " \o e.msg),
              tool |-> PyStr(name)]))>>)

\* The abstract handle_tool, implemented as the router's docstring shows:
\* result = router.dispatch(name, arguments).
handle_tool(handlers, name, arguments) == dispatch(handlers, name, arguments)

\* A scan that keeps going and settles on the last matching entry.
RECURSIVE ScanHandlersLast(_, _, _)
ScanHandlersLast(chain, e, i) ==
    IF i > Len(chain) THEN 0
    ELSE IF ScanHandlersLast(chain, e, i + 1) > 0 THEN ScanHandlersLast(chain, e, i + 1)
    ELSE IF IsInstance(e, chain[i].exc_type) THEN i
    ELSE 0

\* for exc_type, handler in self._error_handlers: if isinstance(e, exc_type):
\* the index of the entry the loop stops at (0 when it runs off the end).
RECURSIVE ScanHandlers(_, _, _)
ScanHandlers(chain, e, i) ==
    IF i > Len(chain) THEN 0
    ELSE IF IsInstance(e, chain[i].exc_type) THEN i
    ELSE ScanHandlers(chain, e, i + 1)

\* The default branch: logger.exception(...) and the generic error payload.
DefaultLog(e, name) ==
    [level |-> "exception", msg |-> "Unexpected error in tool " \o name, exc |-> e]

\* A default payload that leaves the exception's message out.
DefaultResponseNoMessage(e) ==
    <<TextContent(JsonDumps(
        [success |-> PyBool(FALSE), error |-> PyStr("Internal error")]))>>

DefaultResponse(e) ==
    <<TextContent(JsonDumps(
        [success |-> PyBool(FALSE), error |-> PyStr("Internal error: " \o e.msg)]))>>

\* The except branch of _handle_tool_call for exception e.
HandleException(chain, e, name, behaviour) ==
    LET i == ScanHandlers(chain, e, 1) IN
    IF i > 0
    THEN [out |-> RecoveryFn(chain[i].handler, e, name, behaviour),
          examined |-> [j \in 1..i |-> j],
          recovered |-> <<[fn |-> chain[i].handler, index |-> i, exc |-> e, name |-> name,
                           result |-> RecoveryFn(chain[i].handler, e, name, behaviour)]>>,
          logged |-> <<>>]
    ELSE [out |-> Returns(DefaultResponse(e)),
          examined |-> [j \in 1..Len(chain) |-> j],
          recovered |-> <<>>,
          logged |-> <<DefaultLog(e, name)>>]

\* _handle_tool_call(name, arguments): the record of one protected call.
\*   tool      how handle_tool ended
\*   invoked   the registered handlers handle_tool called
\*   out       how _handle_tool_call itself ended
\*   examined  the error_handlers indexes whose isinstance test ran
\*   recovered the recovery functions called, with their arguments and how
\*             each call ended
\*   logged    what the call logged
HandleToolCall(handlers, chain, name, arguments, behaviour) ==
    LET r == handle_tool(handlers, name, arguments) IN
    IF r.out.kind = "return"
    THEN [name |-> name, arguments |-> arguments,
          tool |-> r.out, invoked |-> r.invoked,
          out |-> Returns(<<TextContent(JsonDumps(r.out.value))>>),
          examined |-> <<>>, recovered |-> <<>>, logged |-> <<>>]
    ELSE LET h == HandleException(chain, r.out.exc, name, behaviour) IN
         [name |-> name, arguments |-> arguments,
          tool |-> r.out, invoked |-> r.invoked,
          out |-> h.out,
          examined |-> h.examined, recovered |-> h.recovered, logged |-> h.logged]

\* The two lifecycle flags parse_args may define.
Flags == {"--health-check", "--skip-startup-hook"}

\* dest of a flag: "--health-check" -> args.health_check
Dest(flag) == IF flag = "--health-check" THEN "health_check" ELSE "skip_startup_hook"

\* The flags parse_args adds to the parser: each only if its collaborator is set.
KnownFlags(hc, hook) ==
    (IF hc # None THEN {"--health-check"} ELSE {})
        \cup (IF hook # None THEN {"--skip-startup-hook"} ELSE {})

\* parse_args(): argparse rejects an argument it was not told about with
\* SystemExit(2); otherwise the Namespace holds one store_true attribute per
\* flag that was added (False when the flag is absent from argv).
parse_args(hc, hook, cmdline) ==
    IF ~(cmdline \subseteq KnownFlags(hc, hook))
    THEN Raises([cls |-> "SystemExit", code |-> 2])
    ELSE Returns([d \in {Dest(f) : f \in KnownFlags(hc, hook)} |->
                     \E f \in cmdline : Dest(f) = d])

\* getattr(args, attr, False)
GetAttr(ns, attr) == IF attr \in DOMAIN ns THEN ns[attr] ELSE FALSE

(***************************************************************************)
(* The state of one process: a router, a server built on it, one run().    *)
(***************************************************************************)
VARIABLES
    pc,             \* where the process is: Constructed, Parsed, Started, Serving, Exited
    startup_hook,   \* self._startup_hook (None or the callable)
    health_check,   \* self._health_check (None or the callable)
    error_handlers, \* self._error_handlers
    handlers,       \* ToolRouter._handlers
    registrations,  \* the register() calls made so far, in order
    argv,           \* the lifecycle flags on the command line (sys.argv[1:])
    args,           \* the Namespace parse_args returned to run()
    events,         \* what run() has done so far, in order
    exit,           \* how run() ended
    call,           \* the most recent _handle_tool_call
    returned,       \* what the most recent register(name)(func) returned
    resp,           \* the most recent direct call of a response helper
    loop            \* the call_tool coroutines on the event loop, step by step

vars == <<pc, startup_hook, health_check, error_handlers, handlers,
          registrations, argv, args, events, exit, call, returned, resp, loop>>

config == <<startup_hook, health_check, error_handlers>>

\* Inputs.
ToolNames == {"a", "b"}
Registrable == ToolFuncs \cup {None}
\* The entries a server may list, each class with its own recovery function:
\* (SpecificError, handle_specific), (BaseError, handle_base).
ChainEntries ==
    {[exc_type |-> "SpecificError", handler |-> "handle_specific"],
     [exc_type |-> "BaseError", handler |-> "handle_base"]}
SeqUpTo(S, n) == UNION {[1..k -> S] : k \in 0..n}
CallArgs ==
    {EmptyDict,
     [x |-> PyStr("v")],
     [exc |-> PyStr("SpecificError")],
     [exc |-> PyStr("BaseError")]}
HealthOutcomes ==
    {Returns(0), Returns(1), Raises(Exc("RuntimeError", "probe crashed"))}
HookOutcomes ==
    {Returns(None), Raises(Exc("RuntimeError", "DB connection failed"))}

NoCall == [name |-> None]
Running == [kind |-> "running"]
NoArgs == [d \in {} |-> FALSE]
NoResp == [fn |-> None]
\* No call_tool coroutine was created yet.
IdleLoop == [tasks |-> <<>>, steps |-> <<>>, responses |-> <<>>]

\* ToolRouter() and MCPServerBase.__init__(startup_hook, health_check,
\* error_handlers): error_handlers or [] makes an absent list the empty one.
Init ==
    /\ pc = "Constructed"
    /\ startup_hook \in {None, "hook"}
    /\ health_check \in {None, "check"}
    /\ error_handlers \in SeqUpTo(ChainEntries, MaxChain)
    /\ handlers = <<>>
    /\ registrations = <<>>
    /\ argv = {}
    /\ args = NoArgs
    /\ events = <<>>
    /\ exit = Running
    /\ call = NoCall
    /\ returned = None
    /\ resp = NoResp
    /\ loop = IdleLoop

\* router.register(name)(func), while the server is being set up.
Register(name, func) ==
    /\ pc = "Constructed"
    /\ Len(registrations) < MaxRegs
    /\ handlers' = RegisterHandler(handlers, name, func)
    /\ registrations' = Append(registrations, [name |-> name, func |-> func])
    /\ returned' = RegisterReturn(func)
    /\ UNCHANGED <<resp, loop, pc, config, argv, args, events, exit, call>>

\* run(): args = self.parse_args()
Run_ParseArgs(cmdline) ==
    /\ pc = "Constructed"
    /\ argv' = cmdline
    /\ LET r == parse_args(health_check, startup_hook, cmdline) IN
       IF r.kind = "raise"
       THEN /\ pc' = "Exited"
            /\ exit' = r
            /\ args' = args
       ELSE /\ pc' = "Parsed"
            /\ exit' = exit
            /\ args' = r.value
    /\ events' = Append(events, [op |-> "parse_args", result |-> parse_args(health_check, startup_hook, cmdline)])
    /\ UNCHANGED <<returned, resp, loop, config, handlers, registrations, call>>

\* A health-check condition that does not look at the flag.
HealthCheckModeIgnoresFlag(hc, ns) == hc # None

\* The condition of the health-check branch of run().
HealthCheckMode(hc, ns) == hc # None /\ GetAttr(ns, "health_check")

\* A startup condition that reads the skip flag the wrong way round.
RunsStartupHookInverted(hook, ns) == hook # None /\ GetAttr(ns, "skip_startup_hook")

\* A startup condition that ignores the skip flag.
RunsStartupHookAlways(hook, ns) == hook # None

\* The condition under which run() calls the startup hook.
RunsStartupHook(hook, ns) == hook # None /\ ~GetAttr(ns, "skip_startup_hook")

\* An exit that reports success whatever the health check returned.
HealthExitZero(result) ==
    IF result.kind = "return"
    THEN Raises([cls |-> "SystemExit", code |-> 0])
    ELSE result

\* sys.exit(self._health_check()): SystemExit carrying the returned integer;
\* an exception raised by the health check itself propagates instead.
HealthExit(result) ==
    IF result.kind = "return"
    THEN Raises([cls |-> "SystemExit", code |-> result.value])
    ELSE result

\* A health-check branch that calls the function without sys.exit and
\* carries on into the serve path.
Run_HealthCheckFallsThrough(result) ==
    /\ pc = "Parsed"
    /\ HealthCheckMode(health_check, args)
    /\ pc' = "Started"
    /\ events' = Append(events, [op |-> "health_check", result |-> result])
    /\ exit' = exit
    /\ UNCHANGED <<returned, resp, loop, config, handlers, registrations, argv, args, call>>

\* run(): the health-check branch.
Run_HealthCheck(result) ==
    /\ pc = "Parsed"
    /\ HealthCheckMode(health_check, args)
    /\ pc' = "Exited"
    /\ events' = Append(events, [op |-> "health_check", result |-> result])
    /\ exit' = HealthExit(result)
    /\ UNCHANGED <<returned, resp, loop, config, handlers, registrations, argv, args, call>>

Log(level, msg) == [op |-> "log", level |-> level, msg |-> msg]

\* A startup step that logs the hook's failure and carries on.
Run_StartupSwallows(result) ==
    /\ pc = "Parsed"
    /\ ~HealthCheckMode(health_check, args)
    /\ IF RunsStartupHook(startup_hook, args)
       THEN events' = events \o <<Log("info", "mcp-server MCP server starting..."),
                                   [op |-> "startup_hook", result |-> result],
                                   IF result.kind = "return"
                                   THEN Log("info", "Startup hook completed")
                                   ELSE Log("exception", "Startup hook failed")>>
       ELSE events' = Append(events, Log("info", "mcp-server MCP server starting..."))
    /\ pc' = "Started"
    /\ exit' = exit
    /\ UNCHANGED <<returned, resp, loop, config, handlers, registrations, argv, args, call>>

\* A startup step placed ahead of the health-check branch.
Run_StartupFirst(result) ==
    /\ pc = "Parsed"
    /\ IF RunsStartupHook(startup_hook, args)
       THEN IF result.kind = "return"
            THEN /\ events' = events \o <<Log("info", "mcp-server MCP server starting..."),
                                          [op |-> "startup_hook", result |-> result],
                                          Log("info", "Startup hook completed")>>
                 /\ pc' = "Started"
                 /\ exit' = exit
            ELSE /\ events' = events \o <<Log("info", "mcp-server MCP server starting..."),
                                          [op |-> "startup_hook", result |-> result],
                                          Log("exception", "Startup hook failed")>>
                 /\ pc' = "Exited"
                 /\ exit' = result
       ELSE /\ events' = Append(events, Log("info", "mcp-server MCP server starting..."))
            /\ pc' = "Started"
            /\ exit' = exit
    /\ UNCHANGED <<returned, resp, loop, config, handlers, registrations, argv, args, call>>

\* run(): the "starting" log line, then the startup hook unless skipped:
\* try: self._startup_hook() ... except Exception: logger.exception; raise
Run_Startup(result) ==
    /\ pc = "Parsed"
    /\ ~HealthCheckMode(health_check, args)
    /\ IF RunsStartupHook(startup_hook, args)
       THEN IF result.kind = "return"
            THEN /\ events' = events \o <<Log("info", "mcp-server MCP server starting..."),
                                          [op |-> "startup_hook", result |-> result],
                                          Log("info", "Startup hook completed")>>
                 /\ pc' = "Started"
                 /\ exit' = exit
            ELSE /\ events' = events \o <<Log("info", "mcp-server MCP server starting..."),
                                          [op |-> "startup_hook", result |-> result],
                                          Log("exception", "Startup hook failed")>>
                 /\ pc' = "Exited"
                 /\ exit' = result
       ELSE /\ events' = Append(events, Log("info", "mcp-server MCP server starting..."))
            /\ pc' = "Started"
            /\ exit' = exit
    /\ UNCHANGED <<returned, resp, loop, config, handlers, registrations, argv, args, call>>

\* run(): asyncio.run(main()) enters the transport's serve loop.
Run_Main ==
    /\ pc = "Started"
    /\ pc' = "Serving"
    /\ events' = Append(events, [op |-> "asyncio.run"])
    /\ UNCHANGED <<returned, resp, loop, config, handlers, registrations, argv, args, exit, call>>

\* A call that unregisters the tool it dispatched to.
CallToolConsumesHandler(name, arguments, behaviour, absorbs) ==
    /\ pc = "Serving"
    /\ LET c == HandleToolCall(handlers, error_handlers, name, arguments, behaviour) IN
       /\ behaviour = "raise" => c.recovered # <<>>
       /\ ~absorbs => c.out.kind = "raise"
       /\ call' = c
       /\ IF c.out.kind = "raise" /\ ~absorbs
          THEN pc' = "Exited" /\ exit' = c.out
          ELSE pc' = pc /\ exit' = exit
    /\ handlers' = SelectSeq(handlers, LAMBDA h : h.name # name)
    /\ UNCHANGED <<returned, resp, loop, config, registrations, argv, args, events>>

\* call_tool(name, arguments): the transport delivers one call and awaits
\* self._handle_tool_call.  An exception that leaves _handle_tool_call goes
\* to the transport, which is outside this code: it may absorb it and keep
\* serving, or let it end the loop and run().
CallTool(name, arguments, behaviour, absorbs) ==
    /\ pc = "Serving"
    /\ LET c == HandleToolCall(handlers, error_handlers, name, arguments, behaviour) IN
       \* the recovery function's behaviour is an input only when it runs, and
       \* the transport's reaction only when an exception reaches it
       /\ behaviour = "raise" => c.recovered # <<>>
       /\ ~absorbs => c.out.kind = "raise"
       /\ call' = c
       /\ IF c.out.kind = "raise" /\ ~absorbs
          THEN pc' = "Exited" /\ exit' = c.out
          ELSE pc' = pc /\ exit' = exit
    /\ UNCHANGED <<returned, resp, loop, config, handlers, registrations, argv, args, events>>

\* The transport's channel closes: server.run returns and so does run().
TransportClosed ==
    /\ pc = "Serving"
    /\ pc' = "Exited"
    /\ exit' = [kind |-> "return"]
    /\ UNCHANGED <<returned, resp, loop, config, handlers, registrations, argv, args, events, call>>

Next ==
    \/ \E name \in ToolNames, func \in Registrable : Register(name, func)
    \/ \E cmdline \in SUBSET Flags : Run_ParseArgs(cmdline)
    \/ \E result \in HealthOutcomes : Run_HealthCheck(result)
    \/ \E result \in HookOutcomes : Run_Startup(result)
    \/ Run_Main
    \/ \E name \in ToolNames, arguments \in CallArgs,
          behaviour \in {"return", "raise"}, absorbs \in BOOLEAN :
            CallTool(name, arguments, behaviour, absorbs)
    \/ TransportClosed

Spec == Init /\ [][Next]_vars

(***************************************************************************)
(* The response helpers called on their own: module-level pure functions,  *)
(* applied to keyword arguments a caller may pass.                         *)
(***************************************************************************)
\* The keyword names a caller passes, and the values passed under each.
FieldNames == {"data", "tool", "success", "error"}

FieldValues(k) ==
    CASE k = "data" -> {PyStr("x"), PyStr("y")}
      [] k = "tool" -> {PyStr("t")}
      [] k = "success" -> {PyBool(TRUE), PyBool(FALSE)}
      [] k = "error" -> {PyStr("x")}

\* **kwargs: every dict over a subset of the names.
Kwargs ==
    UNION {{f \in [K -> UNION {FieldValues(k) : k \in FieldNames}] :
                \A k \in K : f[k] \in FieldValues(k)} : K \in SUBSET FieldNames}

Messages == {"e", "Something failed"}
ResourceTypes == {"User", "Belief"}
ResourceIds == {"42", "abc-123"}

RespInit ==
    /\ pc = "Constructed"
    /\ startup_hook = None
    /\ health_check = None
    /\ error_handlers = <<>>
    /\ handlers = <<>>
    /\ registrations = <<>>
    /\ argv = {}
    /\ args = NoArgs
    /\ events = <<>>
    /\ exit = Running
    /\ call = NoCall
    /\ returned = None
    /\ resp = NoResp
    /\ loop = IdleLoop

RespFrame ==
    UNCHANGED <<pc, config, handlers, registrations, argv, args, events,
                exit, call, returned, loop>>

\* success_response(**kwargs)
CallSuccessResponse(kwargs) ==
    /\ resp' = [fn |-> "success_response", kwargs |-> kwargs,
                out |-> Returns(success_response(kwargs))]
    /\ RespFrame

\* error_response(error, **kwargs)
CallErrorResponse(error, kwargs) ==
    /\ resp' = [fn |-> "error_response", error |-> error, kwargs |-> kwargs,
                out |-> error_response(error, kwargs)]
    /\ RespFrame

\* not_found_response(resource_type, resource_id)
CallNotFoundResponse(resource_type, resource_id) ==
    /\ resp' = [fn |-> "not_found_response",
                resource_type |-> resource_type, resource_id |-> resource_id,
                out |-> not_found_response(resource_type, resource_id)]
    /\ RespFrame

RespNext ==
    \/ \E kwargs \in Kwargs : CallSuccessResponse(kwargs)
    \/ \E error \in Messages, kwargs \in Kwargs : CallErrorResponse(error, kwargs)
    \/ \E resource_type \in ResourceTypes, resource_id \in ResourceIds :
          CallNotFoundResponse(resource_type, resource_id)

SpecResponses == RespInit /\ [][RespNext]_vars

(***************************************************************************)
(* The protected call handler step by step.  call_tool and                 *)
(* _handle_tool_call are coroutines on the transport's event loop: the     *)
(* transport creates one per inbound call, and a coroutine gives the loop  *)
(* to another one only where it awaits something that suspends.            *)
(***************************************************************************)
\* The steps of _handle_tool_call at which it awaits: none.  handle_tool,
\* the isinstance scan, the recovery function, logging and json.dumps are
\* plain calls, and "await self._handle_tool_call(...)" in call_tool runs
\* the coroutine inline.
SuspensionPoints == {}

Pending == [kind |-> "pending"]

\* A server that reached Serving from a command line without flags, with
\* two tools registered.
CallsInit ==
    /\ pc = "Serving"
    /\ startup_hook = None
    /\ health_check = None
    /\ error_handlers \in SeqUpTo(ChainEntries, MaxChain)
    /\ handlers = <<[name |-> "a", func |-> "HandlerX"],
                    [name |-> "b", func |-> "Raiser"]>>
    /\ registrations = handlers
    /\ argv = {}
    /\ args = parse_args(None, None, {}).value
    /\ events = <<[op |-> "parse_args", result |-> parse_args(None, None, {})],
                  Log("info", "mcp-server MCP server starting..."),
                  [op |-> "asyncio.run"]>>
    /\ exit = Running
    /\ call = NoCall
    /\ returned = "Raiser"
    /\ resp = NoResp
    /\ loop = IdleLoop

InFlight == {i \in 1..Len(loop.tasks) : loop.tasks[i].phase # "done"}

\* The event loop can run coroutine id: every other coroutine in flight is
\* suspended at an await.  (id = 0: a new coroutine can be started.)
MayRun(id) ==
    \A j \in InFlight \ {id} : loop.tasks[j].phase \in SuspensionPoints

CallsFrame ==
    UNCHANGED <<config, handlers, registrations, argv, args, events, call,
                returned, resp>>

\* The transport delivers a call: call_tool(name, arguments) is created and
\* enters _handle_tool_call.
Deliver(name, arguments) ==
    /\ pc = "Serving"
    /\ Len(loop.tasks) < MaxCalls
    /\ MayRun(0)
    /\ loop' = [loop EXCEPT
          !.tasks = Append(@, [name |-> name, arguments |-> arguments,
                               phase |-> "try", tool |-> Pending, out |-> Pending]),
          !.steps = Append(@, [id |-> Len(loop.tasks) + 1, step |-> "call_tool"])]
    /\ UNCHANGED <<pc, exit>>
    /\ CallsFrame

\* try: result = self.handle_tool(name, arguments); the return value is
\* built from json.dumps(result), or the exception is caught.
Step_Try(id) ==
    /\ pc = "Serving"
    /\ id \in InFlight
    /\ loop.tasks[id].phase = "try"
    /\ MayRun(id)
    /\ LET t == loop.tasks[id]
           r == handle_tool(handlers, t.name, t.arguments) IN
       loop' = [loop EXCEPT
          !.tasks[id] =
              IF r.out.kind = "return"
              THEN [t EXCEPT !.tool = r.out, !.phase = "return",
                             !.out = Returns(<<TextContent(JsonDumps(r.out.value))>>)]
              ELSE [t EXCEPT !.tool = r.out, !.phase = "except"],
          !.steps = Append(@, [id |-> id, step |-> "handle_tool"])]
    /\ UNCHANGED <<pc, exit>>
    /\ CallsFrame

\* except Exception as e: the scan of self._error_handlers, then the
\* matched recovery function or the default fallback.
Step_Except(id, behaviour) ==
    /\ pc = "Serving"
    /\ id \in InFlight
    /\ loop.tasks[id].phase = "except"
    /\ MayRun(id)
    /\ LET t == loop.tasks[id]
           h == HandleException(error_handlers, t.tool.exc, t.name, behaviour) IN
       /\ behaviour = "raise" => h.recovered # <<>>
       /\ loop' = [loop EXCEPT
             !.tasks[id] = [t EXCEPT !.phase = "return", !.out = h.out],
             !.steps = Append(@, [id |-> id, step |-> "chain"])]
    /\ UNCHANGED <<pc, exit>>
    /\ CallsFrame

\* The coroutine ends: its return value is the response call_tool hands to
\* the transport; an exception goes to the transport instead, which may
\* absorb it or let it end the loop and run().
Step_Return(id, absorbs) ==
    /\ pc = "Serving"
    /\ id \in InFlight
    /\ loop.tasks[id].phase = "return"
    /\ MayRun(id)
    /\ ~absorbs => loop.tasks[id].out.kind = "raise"
    /\ loop' = [loop EXCEPT
          !.tasks[id].phase = "done",
          !.steps = Append(@, [id |-> id, step |-> "return"]),
          !.responses = IF loop.tasks[id].out.kind = "return"
                        THEN Append(@, [id |-> id, out |-> loop.tasks[id].out.value])
                        ELSE @]
    /\ IF loop.tasks[id].out.kind = "raise" /\ ~absorbs
       THEN pc' = "Exited" /\ exit' = loop.tasks[id].out
       ELSE pc' = pc /\ exit' = exit
    /\ CallsFrame

CallsNext ==
    \/ \E name \in ToolNames, arguments \in CallArgs : Deliver(name, arguments)
    \/ \E id \in 1..MaxCalls : Step_Try(id)
    \/ \E id \in 1..MaxCalls, behaviour \in {"return", "raise"} :
          Step_Except(id, behaviour)
    \/ \E id \in 1..MaxCalls, absorbs \in BOOLEAN : Step_Return(id, absorbs)

SpecCalls == CallsInit /\ [][CallsNext]_vars

(***************************************************************************)
(* Properties.                                                             *)
(***************************************************************************)
Count(op) == Cardinality({i \in 1..Len(events) : events[i].op = op})

\* The error_handlers indexes whose class the exception is an instance of.
Matching(e) ==
    {i \in 1..Len(error_handlers) : IsInstance(e, error_handlers[i].exc_type)}

Lowest(S) == CHOOSE i \in S : \A j \in S : i <= j

\* C1: while Serving, whatever way handle_tool fails, _handle_tool_call
\* returns a response instead of raising, and no call ends run() with an
\* exception.
C1_CallNeverRaises ==
    call # NoCall => (call.out.kind = "return" /\ exit.kind # "raise")

\* C2: first-match-wins.  When handle_tool raises e and some entry of the
\* chain matches e, exactly the recovery function of the lowest-index
\* matching entry runs, and no entry after that index is examined.
C2_FirstMatchWins ==
    (call # NoCall /\ call.tool.kind = "raise" /\ Matching(call.tool.exc) # {}) =>
        LET first == Lowest(Matching(call.tool.exc)) IN
        /\ Len(call.recovered) = 1
        /\ call.recovered[1].index = first
        /\ call.recovered[1].fn = error_handlers[first].handler
        /\ call.examined = [j \in 1..first |-> j]
        /\ (/\ error_handlers = <<[exc_type |-> "SpecificError", handler |-> "handle_specific"],
                                  [exc_type |-> "BaseError", handler |-> "handle_base"]>>
            /\ call.tool.exc.cls = "SpecificError")
               => call.recovered[1].fn = "handle_specific"

\* A SpecificError raised under [(SpecificError, ..), (BaseError, ..)]: both
\* entries match and the first one recovered.
C2_Witness ==
    /\ call # NoCall
    /\ call.tool.kind = "raise"
    /\ call.tool.exc.cls = "SpecificError"
    /\ error_handlers = <<[exc_type |-> "SpecificError", handler |-> "handle_specific"],
                          [exc_type |-> "BaseError", handler |-> "handle_base"]>>
    /\ Matching(call.tool.exc) = {1, 2}
    /\ call.recovered # <<>>
    /\ call.recovered[1].fn = "handle_specific"

\* C3: default fallback.  When handle_tool raises e and no entry matches
\* (the chain may be empty), no recovery function runs, the failure is
\* logged with the tool name, and the response is the one text item that
\* encodes {success: false, error: "Internal error: <message of e>"}.
C3_DefaultFallback ==
    (call # NoCall /\ call.tool.kind = "raise" /\ Matching(call.tool.exc) = {}) =>
        /\ call.recovered = <<>>
        /\ call.logged = <<[level |-> "exception",
                            msg |-> "Unexpected error in tool " \o call.name,
                            exc |-> call.tool.exc]>>
        /\ call.out = Returns(<<[type |-> "text",
                                 text |-> [success |-> "false",
                                           error |-> "\"Internal error: "
                                                      \o call.tool.exc.msg \o "\""]]>>)

\* A BaseError raised under the non-empty chain [(SpecificError, ..)]:
\* nothing matches and the default answered.
C3_Witness ==
    /\ call # NoCall
    /\ call.tool.kind = "raise"
    /\ call.tool.exc.cls = "BaseError"
    /\ Len(error_handlers) = 1
    /\ Matching(call.tool.exc) = {}
    /\ call.out.kind = "return"
    /\ call.logged # <<>>

\* parse_args returned a Namespace (the command line was accepted).
ParsedOk ==
    \E i \in 1..Len(events) :
        events[i].op = "parse_args" /\ events[i].result.kind = "return"

\* The health-check function is configured and its flag is set.
HealthFlagSet ==
    health_check # None /\ "health_check" \in DOMAIN args /\ args["health_check"]

\* The skip-startup-hook flag is set.
SkipFlagSet == "skip_startup_hook" \in DOMAIN args /\ args["skip_startup_hook"]

\* C4: health-check mode.  With a health-check function configured and its
\* flag set, run() calls the function once and ends with SystemExit carrying
\* exactly the integer it returned; the serve loop is never entered.
C4_HealthCheckMode ==
    HealthFlagSet =>
        /\ Count("asyncio.run") = 0
        /\ pc \notin {"Started", "Serving"}
        /\ pc = "Exited" =>
              /\ Count("health_check") = 1
              /\ \A i \in 1..Len(events) :
                    (events[i].op = "health_check" /\ events[i].result.kind = "return")
                        => exit = [kind |-> "raise",
                                   exc |-> [cls |-> "SystemExit",
                                            code |-> events[i].result.value]]

\* The health check returned 1 and the process ended with exit status 1.
C4_Witness ==
    /\ HealthFlagSet
    /\ pc = "Exited"
    /\ Count("health_check") = 1
    /\ exit = [kind |-> "raise", exc |-> [cls |-> "SystemExit", code |-> 1]]

\* C5: startup failure is fatal.  When the startup hook is called and
\* raises, the failure is logged, run() ends with that same exception, the
\* hook is not called again and the serve loop is never entered.
C5_StartupFailureFatal ==
    \A i \in 1..Len(events) :
        (events[i].op = "startup_hook" /\ events[i].result.kind = "raise") =>
            /\ pc = "Exited"
            /\ exit = events[i].result
            /\ Count("startup_hook") = 1
            /\ Count("asyncio.run") = 0
            /\ call = NoCall
            /\ i < Len(events)
            /\ events[i + 1] = [op |-> "log", level |-> "exception",
                                msg |-> "Startup hook failed"]

\* The hook was configured, not skipped, and raised.
C5_Witness ==
    /\ startup_hook # None
    /\ ~SkipFlagSet
    /\ pc = "Exited"
    /\ \E i \in 1..Len(events) :
          events[i].op = "startup_hook" /\ events[i].result.kind = "raise"

\* C6: startup ordering.  In a serve-mode run with a startup hook
\* configured and the skip flag unset, the hook is called exactly once and
\* has returned before the serve loop is entered.
C6_StartupOrdering ==
    (startup_hook # None /\ ParsedOk /\ ~SkipFlagSet /\ ~HealthFlagSet) =>
        /\ Count("startup_hook") <= 1
        /\ (pc \in {"Started", "Serving"} \/ Count("asyncio.run") > 0) =>
              /\ Count("startup_hook") = 1
              /\ \E i \in 1..Len(events) :
                    /\ events[i].op = "startup_hook"
                    /\ events[i].result.kind = "return"
                    /\ \A j \in 1..Len(events) :
                          events[j].op = "asyncio.run" => i < j

\* The hook ran and the server is serving.
C6_Witness ==
    /\ startup_hook # None
    /\ ~SkipFlagSet
    /\ pc = "Serving"
    /\ Count("startup_hook") = 1
    /\ Count("asyncio.run") = 1

\* C7: skip flag.  In a serve-mode run with a startup hook configured and
\* the skip flag set, the hook is never called and run() cannot end without
\* having entered the serve loop, which it enters once; the same holds of
\* the serve loop when neither collaborator is configured.
C7_SkipFlag ==
    /\ (startup_hook # None /\ SkipFlagSet /\ ~HealthFlagSet) =>
          /\ Count("startup_hook") = 0
          /\ Count("asyncio.run") <= 1
          /\ pc \in {"Serving", "Exited"} => Count("asyncio.run") = 1
    /\ (startup_hook = None /\ health_check = None /\ ParsedOk) =>
          /\ Count("startup_hook") = 0
          /\ Count("asyncio.run") <= 1
          /\ pc \in {"Serving", "Exited"} => Count("asyncio.run") = 1

\* The hook was skipped and the server is serving.
C7_Witness ==
    /\ startup_hook # None
    /\ SkipFlagSet
    /\ pc = "Serving"
    /\ Count("startup_hook") = 0
    /\ Count("asyncio.run") = 1

\* C8: for every registered (name, handler) pair, dispatch(name, args)
\* calls exactly that handler, once, with args as its keyword arguments,
\* calls no other handler, and ends exactly as the handler ended.
C8_DispatchInvokesRegistered ==
    call # NoCall =>
        \A i \in 1..Len(handlers) :
            (handlers[i].name = call.name /\ handlers[i].func # None) =>
                /\ call.invoked = <<[func |-> handlers[i].func,
                                     name |-> call.name,
                                     kwargs |-> call.arguments]>>
                /\ call.tool = CallHandler(handlers[i].func, call.arguments)

\* Two tools registered; the second was dispatched to and its result came back.
C8_Witness ==
    /\ call # NoCall
    /\ Len(handlers) = 2
    /\ handlers[1] = [name |-> "a", func |-> "Raiser"]
    /\ handlers[2] = [name |-> "b", func |-> "HandlerX"]
    /\ call.name = "b"
    /\ call.invoked = <<[func |-> "HandlerX", name |-> "b",
                         kwargs |-> [x |-> [t |-> "str", s |-> "v"]]]>>
    /\ call.tool = [kind |-> "return", value |-> [x |-> [t |-> "str", s |-> "v"]]]

\* C9: dispatch on a name that is not registered returns
\* {success: false, error: "Unknown tool: <name>"}, raises nothing and calls
\* no handler, whatever the arguments and the other registrations.
C9_UnknownTool ==
    (call # NoCall /\ \A i \in 1..Len(handlers) : handlers[i].name # call.name) =>
        /\ call.tool = [kind |-> "return",
                        value |-> [success |-> [t |-> "bool", b |-> FALSE],
                                   error |-> [t |-> "str",
                                              s |-> "Unknown tool: " \o call.name]]]
        /\ call.invoked = <<>>

\* "a" is registered, "b" is not, and "b" was called with arguments.
C9_Witness ==
    /\ call # NoCall
    /\ call.name = "b"
    /\ Len(handlers) = 1
    /\ handlers[1].name = "a"
    /\ call.arguments # EmptyDict
    /\ call.tool.kind = "return"

\* The handler of the latest register() call made under name n.
LastRegistered(n) ==
    LET S == {i \in 1..Len(registrations) : registrations[i].name = n} IN
    registrations[CHOOSE i \in S : \A j \in S : j <= i].func

\* C10: last-write-wins.  Every register() call takes effect without a
\* duplicate-name error: each registered name has one entry, holding the
\* handler of the latest registration under it, and dispatch calls that
\* handler and never an earlier one.
C10_LastWriteWins ==
    /\ \A n \in ToolNames :
          (\E i \in 1..Len(registrations) : registrations[i].name = n) =>
              /\ Cardinality({i \in 1..Len(handlers) : handlers[i].name = n}) = 1
              /\ \A i \in 1..Len(handlers) :
                    handlers[i].name = n => handlers[i].func = LastRegistered(n)
    /\ call # NoCall =>
          \A k \in 1..Len(call.invoked) :
              call.invoked[k].func = LastRegistered(call.name)

\* "a" was registered twice and a call to "a" reached the second handler.
C10_Witness ==
    /\ registrations = <<[name |-> "a", func |-> "HandlerX"],
                         [name |-> "a", func |-> "Raiser"]>>
    /\ call # NoCall
    /\ call.name = "a"
    /\ Len(call.invoked) = 1
    /\ call.invoked[1].func = "Raiser"

(***************************************************************************)
(* The listing of names and the frame of register()                        *)
(***************************************************************************)
\* The names that register() was called with so far.
RegisteredNames == {registrations[i].name : i \in 1..Len(registrations)}

\* The position of the first register() call made under name n.
FirstRegistration(n) ==
    Lowest({i \in 1..Len(registrations) : registrations[i].name = n})

C12_RegisterFrame ==
    [][registrations' # registrations =>
          LET r == registrations'[Len(registrations')] IN
          /\ returned' = r.func
          /\ DictGet(handlers', r.name) = r.func
          /\ DictKeys(handlers') \ {r.name} = DictKeys(handlers) \ {r.name}
          /\ \A n \in DictKeys(handlers) \ {r.name} :
                DictGet(handlers', n) = DictGet(handlers, n)
          /\ UNCHANGED <<pc, startup_hook, health_check, error_handlers,
                         argv, args, events, exit, call, resp, loop>>]_vars

\* A second name was registered: its handler came back from register()
\* and the first name still has its own handler.
C12_Witness ==
    /\ registrations = <<[name |-> "a", func |-> "HandlerX"],
                         [name |-> "b", func |-> "Raiser"]>>
    /\ returned = "Raiser"
    /\ DictGet(handlers, "a") = "HandlerX"
    /\ DictGet(handlers, "b") = "Raiser"

(***************************************************************************)
(* The error handler chain as the last line of defence                     *)
(***************************************************************************)
\* C13: the error handler chain never itself raises.  Whenever handle_tool
\* raised, running the chain (the matched recovery function, or the default
\* fallback) ended by returning a response out of _handle_tool_call.
C13_ChainNeverRaises ==
    (call # NoCall /\ call.tool.kind = "raise") =>
        call.out.kind = "return"

(***************************************************************************)
(* The response envelopes                                                  *)
(***************************************************************************)
\* C14: for every message and every additional fields, error_response
\* returns an envelope whose success is false and whose error is the
\* message, holding the additional fields and nothing more; so a
\* success=false envelope carries error.  error_response("e") is exactly
\* {success: false, error: "e"}.
C14_FailureEnvelope ==
    resp.fn = "error_response" =>
        /\ resp.out.kind = "return"
        /\ DOMAIN resp.out.value = {"success", "error"} \cup DOMAIN resp.kwargs
        /\ resp.out.value["success"] = PyBool(FALSE)
        /\ resp.out.value["error"] = PyStr(resp.error)
        /\ \A k \in DOMAIN resp.kwargs \ {"success", "error"} :
              resp.out.value[k] = resp.kwargs[k]
        /\ (resp.error = "e" /\ resp.kwargs = EmptyDict) =>
              resp.out.value = [success |-> PyBool(FALSE), error |-> PyStr("e")]

\* C15: for every set of fields, success_response returns an envelope
\* whose success is true and which holds each supplied field with its
\* supplied value and no other field.  success_response(data="x") is
\* exactly {success: true, data: "x"}.
C15_SuccessEnvelope ==
    resp.fn = "success_response" =>
        /\ resp.out.kind = "return"
        /\ DOMAIN resp.out.value = {"success"} \cup DOMAIN resp.kwargs
        /\ resp.out.value["success"] = PyBool(TRUE)
        /\ \A k \in DOMAIN resp.kwargs \ {"success"} :
              resp.out.value[k] = resp.kwargs[k]
        /\ resp.kwargs = [data |-> PyStr("x")] =>
              resp.out.value = [success |-> PyBool(TRUE), data |-> PyStr("x")]

\* C16: not_found_response(resource_type, resource_id) is what
\* error_response("<resource_type> not found: <resource_id>") is: exactly
\* {success: false, error: "<resource_type> not found: <resource_id>"};
\* for ("User", "42") the error is "User not found: 42".
C16_NotFound ==
    resp.fn = "not_found_response" =>
        /\ resp.out =
              Returns([success |-> PyBool(FALSE),
                       error |-> PyStr(resp.resource_type \o " not found: "
                                       \o resp.resource_id)])
        /\ (resp.resource_type = "User" /\ resp.resource_id = "42") =>
              resp.out.value = [success |-> [t |-> "bool", b |-> FALSE],
                                error |-> [t |-> "str", s |-> "User not found: 42"]]

\* not_found_response("User", "42") was called and returned.
C16_Witness ==
    /\ resp.fn = "not_found_response"
    /\ resp.resource_type = "User"
    /\ resp.resource_id = "42"
    /\ resp.out.kind = "return"

(***************************************************************************)
(* The protected call handler on the success path                          *)
(***************************************************************************)
\* The JSON text of one envelope field.
Encoded(v) ==
    IF v.t = "bool"
    THEN (IF v.b THEN "true" ELSE "false")
    ELSE "\"" \o Str(v) \o "\""

\* C17: successful call pass-through.  When handle_tool returns an
\* envelope E, _handle_tool_call returns exactly one text item whose
\* payload encodes E field by field, with no field added, removed or
\* altered, and neither a recovery function nor the default fallback runs.
C17_SuccessPassThrough ==
    (call # NoCall /\ call.tool.kind = "return") =>
        LET E == call.tool.value IN
        /\ call.out.kind = "return"
        /\ Len(call.out.value) = 1
        /\ call.out.value[1].type = "text"
        /\ DOMAIN call.out.value[1].text = DOMAIN E
        /\ \A k \in DOMAIN E : call.out.value[1].text[k] = Encoded(E[k])
        /\ call.examined = <<>>
        /\ call.recovered = <<>>
        /\ call.logged = <<>>

\* With an error handler chain configured, a handler returned {x: "v"}
\* and the caller received its encoding.
C17_Witness ==
    /\ call # NoCall
    /\ error_handlers # <<>>
    /\ call.tool = Returns([x |-> PyStr("v")])
    /\ call.out = Returns(<<[type |-> "text", text |-> [x |-> "\"v\""]]>>)

(***************************************************************************)
(* The two execution modes of run()                                        *)
(***************************************************************************)
HealthCheckInvoked == Count("health_check") > 0
MainLoopEntered == Count("asyncio.run") > 0

\* run() got past the health-check branch: its "starting" line was logged.
EnteredStartingUp ==
    \E i \in 1..Len(events) :
        events[i].op = "log" /\ events[i].msg = "mcp-server MCP server starting..."

StartupHookFailed ==
    \E i \in 1..Len(events) :
        events[i].op = "startup_hook" /\ events[i].result.kind = "raise"

\* parse_args ended run() with the usage error, exit status 2.
UsageError ==
    /\ pc = "Exited"
    /\ exit = Raises([cls |-> "SystemExit", code |-> 2])
    /\ ~HealthCheckInvoked
    /\ ~EnteredStartingUp
    /\ ~MainLoopEntered

\* C18 as stated: every run() enters exactly one of health-check mode and
\* serve mode: never are both the health check invoked and the main loop
\* entered, and every run that has ended without a startup failure did one
\* of the two.
C18_ModeExclusivityAsStated ==
    /\ ~(HealthCheckInvoked /\ MainLoopEntered)
    /\ (pc = "Exited" /\ ~StartupHookFailed) =>
          (HealthCheckInvoked \/ MainLoopEntered)

\* C18, amended: the same for every run() whose command line parse_args
\* accepts; a command line naming a flag whose collaborator is not
\* configured ends run() in parse_args with exit status 2, in neither mode.
C18_ModeExclusivity ==
    /\ ~(HealthCheckInvoked /\ MainLoopEntered)
    /\ (pc = "Exited" /\ ParsedOk /\ ~StartupHookFailed) =>
          (HealthCheckInvoked \/ MainLoopEntered)
    /\ pc = "Serving" => (MainLoopEntered /\ ~HealthCheckInvoked)
    /\ (pc # "Constructed" /\ ~ParsedOk) => UsageError

\* A run in health-check mode has ended: the function was called and the
\* main loop was never entered.
C18_Witness ==
    /\ pc = "Exited"
    /\ ParsedOk
    /\ HealthCheckInvoked
    /\ ~MainLoopEntered
    /\ exit = Raises([cls |-> "SystemExit", code |-> 1])

\* C19 as stated: run() calls the health check only if the function is
\* configured and its flag is set; in every other combination of
\* collaborators and command-line flags, a flag without its collaborator
\* included, run() proceeds to StartingUp.
C19_ModeSelectionAsStated ==
    /\ HealthCheckInvoked => HealthFlagSet
    /\ (pc \notin {"Constructed", "Parsed"}
          /\ ~(health_check # None /\ "--health-check" \in argv)) =>
              EnteredStartingUp

\* C19, amended: among the command lines parse_args accepts, run() calls
\* the health check exactly when the function is configured and its flag
\* is set, and otherwise proceeds to StartingUp without calling it; a flag
\* given without its collaborator is not ignored: parse_args rejects it
\* and run() ends with exit status 2.
C19_ModeSelection ==
    /\ HealthCheckInvoked => (HealthFlagSet /\ "--health-check" \in argv)
    /\ (pc \notin {"Constructed", "Parsed"} /\ ParsedOk) =>
          IF HealthFlagSet
          THEN HealthCheckInvoked /\ ~EnteredStartingUp
          ELSE EnteredStartingUp /\ ~HealthCheckInvoked
    /\ (pc # "Constructed"
          /\ (("--health-check" \in argv /\ health_check = None)
               \/ ("--skip-startup-hook" \in argv /\ startup_hook = None))) =>
              UsageError

\* Both collaborators configured and only the skip flag given: run() went
\* on to StartingUp, skipping the hook, and never called the health check.
C19_Witness ==
    /\ health_check # None
    /\ startup_hook # None
    /\ argv = {"--skip-startup-hook"}
    /\ ParsedOk
    /\ EnteredStartingUp
    /\ ~HealthCheckInvoked
    /\ Count("startup_hook") = 0
    /\ pc = "Serving"

(***************************************************************************)
(* Handler failures in dispatch                                            *)
(***************************************************************************)
\* C20: a handler failure propagates.  When the handler dispatch invoked
\* raises, a misfit between the arguments and its parameters included,
\* dispatch ends by raising that same exception, not by returning an
\* envelope, and the call leaves the name->handler map as it was.
C20_HandlerFailurePropagates ==
    [][call' # call =>
          /\ handlers' = handlers
          /\ \A k \in 1..Len(call'.invoked) :
                LET inv == call'.invoked[k]
                    outcome == CallHandler(inv.func, inv.kwargs) IN
                outcome.kind = "raise" => call'.tool = outcome]_vars

\* The handler registered under the called name takes a parameter x, was
\* called with no arguments, and the TypeError came out of dispatch.
C20_Witness ==
    /\ call # NoCall
    /\ DictGet(handlers, call.name) = "HandlerX"
    /\ call.arguments = EmptyDict
    /\ Len(call.invoked) = 1
    /\ call.tool.kind = "raise"
    /\ call.tool.exc.cls = "TypeError"

(***************************************************************************)
(* Classified failures                                                     *)
(***************************************************************************)
\* C21: classified failure recovery.  When handle_tool raises e and a chain
\* entry matches, the recovery function of that entry is called exactly
\* once, with e and the name of the tool being called, and
\* _handle_tool_call returns what the function returned, unmodified; the
\* default fallback neither runs nor logs.
C21_ClassifiedRecovery ==
    (call # NoCall /\ call.tool.kind = "raise" /\ Matching(call.tool.exc) # {}) =>
        /\ Len(call.recovered) = 1
        /\ call.recovered[1].exc = call.tool.exc
        /\ call.recovered[1].name = call.name
        /\ call.out.kind = "return"
        /\ call.out = call.recovered[1].result
        /\ call.logged = <<>>

(***************************************************************************)
(* Calls one at a time                                                     *)
(***************************************************************************)
\* The steps coroutine id has taken, in order.
StepsOf(id) ==
    LET own == SelectSeq(loop.steps, LAMBDA s : s.id = id) IN
    [i \in 1..Len(own) |-> own[i].step]

IsPrefix(p, q) == Len(p) <= Len(q) /\ \A i \in 1..Len(p) : p[i] = q[i]

\* handle_tool completes, returning or raising, before the chain is
\* consulted, the chain runs only for a raised failure, and it completes
\* before the call ends.
PhasesInOrder ==
    \A id \in 1..Len(loop.tasks) :
        LET t == loop.tasks[id] IN
        /\ \/ IsPrefix(StepsOf(id), <<"call_tool", "handle_tool", "return">>)
           \/ IsPrefix(StepsOf(id), <<"call_tool", "handle_tool", "chain", "return">>)
        /\ (Len(StepsOf(id)) >= 3 /\ StepsOf(id)[3] = "chain") <=>
              (t.tool.kind = "raise" /\ t.phase \in {"return", "done"})
        /\ t.phase = "done" => t.out # Pending

\* The steps of two calls never interleave.
NoInterleaving ==
    \A i, j, k \in 1..Len(loop.steps) :
        (i < j /\ j < k /\ loop.steps[i].id = loop.steps[k].id) =>
            loop.steps[j].id = loop.steps[i].id

\* Each call that has ended produced exactly one response, and responses
\* come in the order the calls were delivered.
OneResponseEachInOrder ==
    /\ \A id \in 1..Len(loop.tasks) :
          Cardinality({i \in 1..Len(loop.responses) : loop.responses[i].id = id})
              = IF loop.tasks[id].phase = "done" THEN 1 ELSE 0
    /\ \A i, j \in 1..Len(loop.responses) :
          i < j => loop.responses[i].id < loop.responses[j].id

\* C22: calls are handled one at a time and each to completion.  Within
\* _handle_tool_call, handle_tool completes before the error handler chain
\* is consulted and the chain completes before the response is returned;
\* the handler never suspends, so the handling of two calls never
\* interleaves; and each call yields exactly one response, in the order the
\* calls were delivered.
C22_OneCallAtATime ==
    /\ PhasesInOrder
    /\ NoInterleaving
    /\ OneResponseEachInOrder

(***************************************************************************)
(* What run() and the serving of calls leave alone                         *)
(***************************************************************************)
\* C23: read-only after construction.  No step of run() and no call served
\* (reading the flags, the health check, the startup hook, a protected
\* call with a matched or the default recovery, dispatch) changes the
\* name->handler map, the error_handlers list, or the bound startup hook
\* and health check: the collaborators never change after construction,
\* and the map changes only in a register() call.
C23_ReadOnlyAfterConstruction ==
    [][/\ startup_hook' = startup_hook
       /\ health_check' = health_check
       /\ error_handlers' = error_handlers
       /\ registrations' = registrations => handlers' = handlers
       /\ pc # "Constructed" => handlers' = handlers]_vars

\* run() went through the startup hook and served a call that the second
\* chain entry recovered; the map is still what register() built and the
\* chain is still the list given to the constructor.
C23_Witness ==
    /\ pc = "Serving"
    /\ Count("startup_hook") = 1
    /\ call # NoCall
    /\ call.recovered # <<>>
    /\ call.recovered[1].index = 2
    /\ Len(error_handlers) = 2
    /\ handlers = <<[name |-> "a", func |-> "Raiser"],
                    [name |-> "b", func |-> "HandlerX"]>>
    /\ handlers = registrations

(***************************************************************************)
(* The three views of the registry                                         *)
(***************************************************************************)
\* C24: registry view consistency.  After any sequence of register() calls
\* with any handler values, for every name: has_tool(name) is true exactly
\* when name is in tool_names(), and exactly when dispatch(name, args)
\* invokes a handler instead of returning the "Unknown tool" envelope.
C24_ViewsAgree ==
    \A n \in ToolNames :
        LET names == tool_names(handlers) IN
        /\ has_tool(handlers, n) <=> (\E i \in 1..Len(names) : names[i] = n)
        /\ \A arguments \in CallArgs :
              LET d == dispatch(handlers, n, arguments) IN
              /\ has_tool(handlers, n) <=> d.invoked # <<>>
              /\ ~has_tool(handlers, n) <=>
                    d.out = Returns([success |-> PyBool(FALSE),
                                     error |-> PyStr("Unknown tool: " \o n)])

(***************************************************************************)
(* Health check before startup                                             *)
(***************************************************************************)
\* C25: health-check precedence.  With a health check and a startup hook
\* both configured and the health-check flag set, the startup hook is never
\* called in that run, whatever the skip flag: run() never gets to its
\* startup step, and when it has ended it has called the health check and
\* ended with that outcome.
C25_HealthCheckPrecedence ==
    (health_check # None /\ startup_hook # None /\ HealthFlagSet) =>
        /\ Count("startup_hook") = 0
        /\ ~EnteredStartingUp
        /\ pc \in {"Parsed", "Exited"}
        /\ pc = "Exited" =>
              /\ Count("health_check") = 1
              /\ events[Len(events)].op = "health_check"
              /\ exit = HealthExit(events[Len(events)].result)

\* Both collaborators configured, only the health-check flag given (so the
\* hook was not skipped): run() ended in the health check with exit status
\* 0 and the hook was never called.
C25_Witness ==
    /\ health_check # None
    /\ startup_hook # None
    /\ argv = {"--health-check"}
    /\ pc = "Exited"
    /\ exit = Raises([cls |-> "SystemExit", code |-> 0])
    /\ Count("health_check") = 1
    /\ Count("startup_hook") = 0

====
